---- MODULE Spec2Model ----
(***************************************************************************)
(* Model of the ebcc crate's safe wrappers around the EBCC C codec:        *)
(* EBCCConfig::validate (src/src/config.rs), ebcc_encode and               *)
(* ebcc_decode_into (src/src/codec.rs).  The C library behind ebcc_sys is  *)
(* opaque, so every call into it answers nondeterministically.             *)
(*                                                                         *)
(* Each thread of control performs one call.  pc is its position in the    *)
(* wrapper, mem the caller-owned memory it passed in, entry a snapshot of  *)
(* that memory taken at the call, frame the wrapper's local variables,     *)
(* heap the C allocator's buffers and log the ordered record of what the   *)
(* thread did to the foreign side.                                         *)
(***************************************************************************)
EXTENDS Integers, Sequences, FiniteSets, TLC

VARIABLES pc, op, mem, entry, frame, result, heap, log

vars == <<pc, op, mem, entry, frame, result, heap, log>>

----------------------------------------------------------------------------
(* Bounds of the model *)

\* width of usize in bits (scaled down from the 64 of the usual target)
UsizeBits == 16
\* number of leading (row-major) grid elements that vary; the rest are Fill
HeadLen == 2
\* longest compressed payload, in bytes
MaxPayload == 2
\* largest element count the foreign decoder returns
MaxDecoded == 3
\* largest element count and axis length of a decode output view
MaxOut == 2

(* Program constants *)

\* size_of::<f32>()
SizeOfF32 == 4
\* minimum length of the last two dimensions
MinDim == 32

UsizeMax == 2 ^ UsizeBits - 1
IsizeMax == 2 ^ (UsizeBits - 1) - 1

Threads == {1, 2}
\* the threads that run under Spec
Solo == {1}

Null == 0
Ptrs == 1..Cardinality(Threads)

None == -1

----------------------------------------------------------------------------
(* 32-bit floats, by representative value of each class *)

F32 == {"-inf", "-1.0", "0.0", "1.0", "10.0", "+inf", "NaN"}

\* f32::is_finite
IsFinite(x) == x \notin {"-inf", "+inf", "NaN"}

\* x <= 0.0 on f32: false for NaN
LeZero(x) == x \in {"-inf", "-1.0", "0.0"}

ByteVals == {0, 255}

\* all sequences over S of length exactly n
SeqsOf(S, n) == [1..n -> S]

RECURSIVE SeqsUpTo(_, _)
\* all sequences over S of length at most n
SeqsUpTo(S, n) == IF n = 0 THEN {<<>>} ELSE SeqsOf(S, n) \cup SeqsUpTo(S, n - 1)

Min(a, b) == IF a < b THEN a ELSE b

----------------------------------------------------------------------------
(* Results *)

OkUnit == [kind |-> "Ok", msg |-> "", index |-> None, value |-> <<>>]
OkBytes(v) == [kind |-> "Ok", msg |-> "", index |-> None, value |-> v]
Err(kind, msg) == [kind |-> kind, msg |-> msg, index |-> None, value |-> <<>>]
ErrAt(kind, msg, i) == [kind |-> kind, msg |-> msg, index |-> i, value |-> <<>>]
NoResult == [kind |-> "none", msg |-> "", index |-> None, value |-> <<>>]

----------------------------------------------------------------------------
(* Configuration *)

\* the payload-free variant carries a placeholder the code never reads
Jpeg2000Only == [tag |-> "Jpeg2000Only", error |-> "0.0"]
AbsoluteError(e) == [tag |-> "AbsoluteError", error |-> e]
RelativeError(e) == [tag |-> "RelativeError", error |-> e]

ConfigVals == F32 \ {"1.0"}

EBCCResidualType ==
  {Jpeg2000Only} \cup {AbsoluteError(e) : e \in ConfigVals}
                 \cup {RelativeError(e) : e \in ConfigVals}

EBCCConfig == [base_cr : ConfigVals, residual_compression_type : EBCCResidualType]

\* EBCCConfig::new()
NewConfig == [base_cr |-> "10.0", residual_compression_type |-> Jpeg2000Only]

as_residual_swapped(self) ==
  CASE self.tag = "Jpeg2000Only" -> "NONE"
    [] self.tag = "AbsoluteError" -> "RELATIVE_ERROR"
    [] self.tag = "RelativeError" -> "MAX_ERROR"

as_residual(self) ==
  CASE self.tag = "Jpeg2000Only" -> "NONE"
    [] self.tag = "AbsoluteError" -> "MAX_ERROR"
    [] self.tag = "RelativeError" -> "RELATIVE_ERROR"

as_error(self) ==
  IF self.tag = "Jpeg2000Only" THEN "0.0" ELSE self.error

ValidateNoBound(self) ==
  IF LeZero(self.base_cr)
  THEN Err("InvalidConfig", "Base compression ratio must be positive")
  ELSE OkUnit

\* EBCCConfig::validate
Validate(self) ==
  IF LeZero(self.base_cr)
  THEN Err("InvalidConfig", "Base compression ratio must be positive")
  ELSE IF self.residual_compression_type.tag \in {"AbsoluteError", "RelativeError"}
          /\ LeZero(self.residual_compression_type.error)
  THEN Err("InvalidConfig", "Error bound must be positive")
  ELSE OkUnit

----------------------------------------------------------------------------
(* Input grids: ArrayView3<f32> in logical (row-major) order.  A grid is    *)
(* its shape and its first HeadLen elements; every later element is Fill.   *)

Fill == "1.0"
GridVals == {"1.0", "NaN", "-inf"}

FrameDims == {0, 1, 8 * MinDim}
PlaneDims == {0, MinDim - 1, MinDim, 4 * MinDim, 8 * MinDim}
Shapes == FrameDims \X PlaneDims \X PlaneDims

\* ArrayView3::len, as a mathematical integer
Count(shape) == shape[1] * shape[2] * shape[3]

Grids ==
  UNION {{[shape |-> s, head |-> h] : h \in SeqsOf(GridVals, Min(Count(s), HeadLen))}
         : s \in Shapes}

NoGrid == [shape |-> <<0, 0, 0>>, head |-> <<>>]

\* the element data.iter() yields at 0-based position i
ElemAt(data, i) == IF i < Len(data.head) THEN data.head[i + 1] ELSE Fill

\* usize::checked_mul
CheckedMul(acc, d) == IF acc = None \/ acc * d > UsizeMax THEN None ELSE acc * d

\* shape.iter().try_fold(1usize, |acc, &d| acc.checked_mul(d))
TotalElements(shape) ==
  CheckedMul(CheckedMul(CheckedMul(1, shape[1]), shape[2]), shape[3])

LastNonFinite(data) ==
  LET bad == {i \in 0..(Count(data.shape) - 1) : ~IsFinite(ElemAt(data, i))}
  IN  IF bad = {} THEN None ELSE CHOOSE i \in bad : \A j \in bad : i >= j

\* the 0-based position at which the scan for non-finite values stops
FirstNonFinite(data) ==
  LET bad == {i \in 0..(Count(data.shape) - 1) : ~IsFinite(ElemAt(data, i))}
  IN  IF bad = {} THEN None ELSE CHOOSE i \in bad : \A j \in bad : i <= j

CheckShapeNoMin(data) ==
  IF \E i \in 1..3 : data.shape[i] = 0
  THEN Err("InvalidInput", "All dimensions must be > 0")
  ELSE IF TotalElements(data.shape) = None
  THEN Err("InvalidInput", "Dimension overflow")
  ELSE IF TotalElements(data.shape) > IsizeMax \div SizeOfF32
  THEN Err("InvalidInput", "Data too large")
  ELSE OkUnit

\* the dimension, size and 32x32 checks of ebcc_encode
CheckShape(data) ==
  IF \E i \in 1..3 : data.shape[i] = 0
  THEN Err("InvalidInput", "All dimensions must be > 0")
  ELSE IF TotalElements(data.shape) = None
  THEN Err("InvalidInput", "Dimension overflow")
  ELSE IF TotalElements(data.shape) > IsizeMax \div SizeOfF32
  THEN Err("InvalidInput", "Data too large")
  ELSE IF data.shape[2] < MinDim \/ data.shape[3] < MinDim
  THEN Err("InvalidInput", "EBCC requires last two dimensions to be at least 32x32")
  ELSE OkUnit

CheckFiniteNone(data) == OkUnit

\* the scan for NaN or infinity values of ebcc_encode
CheckFinite(data) ==
  IF FirstNonFinite(data) # None
  THEN ErrAt("InvalidInput", "Non-finite value", FirstNonFinite(data))
  ELSE OkUnit

EncodeValidateConfigLast(data, config) ==
  IF CheckShape(data).kind # "Ok" THEN CheckShape(data)
  ELSE IF CheckFinite(data).kind # "Ok" THEN CheckFinite(data)
  ELSE Validate(config)

\* everything ebcc_encode checks before it builds the foreign configuration
EncodeValidate(data, config) ==
  IF CheckShape(data).kind # "Ok" THEN CheckShape(data)
  ELSE IF Validate(config).kind # "Ok" THEN Validate(config)
  ELSE CheckFinite(data)

\* ebcc_sys::codec_config_t as ebcc_encode fills it
FfiConfig(data, config) ==
  [dims |-> data.shape,
   base_cr |-> config.base_cr,
   residual_compression_type |-> as_residual(config.residual_compression_type),
   residual_cr |-> "1.0",
   error |-> as_error(config.residual_compression_type)]

NoFfiConfig ==
  [dims |-> <<0, 0, 0>>, base_cr |-> "0.0", residual_compression_type |-> "NONE",
   residual_cr |-> "0.0", error |-> "0.0"]

----------------------------------------------------------------------------
(* Decode inputs *)

Payloads == SeqsUpTo(ByteVals, MaxPayload)

OutVals == {"0.0", "10.0"}
DecodedVals == {"1.0", "-1.0"}

OutShapes == {s \in (0..MaxOut) \X (0..MaxOut) \X (0..MaxOut) : Count(s) <= MaxOut}

\* ArrayViewMut3<f32> in logical order
OutViews ==
  UNION {{[shape |-> s, elems |-> e] : e \in SeqsOf(OutVals, Count(s))} : s \in OutShapes}

NoView == [shape |-> <<0, 0, 0>>, elems |-> <<>>]

----------------------------------------------------------------------------
(* The C allocator *)

NoCell == [state |-> "unallocated", bytes |-> <<>>, frees |-> 0]

\* the pointer malloc hands out next
FreshPtr == CHOOSE p \in Ptrs : heap[p].state = "unallocated"
                                /\ \A q \in Ptrs : heap[q].state = "unallocated" => p <= q

Alloc(p, contents) == [heap EXCEPT ![p] = [state |-> "live", bytes |-> contents, frees |-> 0]]

\* ebcc_sys::free_buffer
FreeBuffer(p) ==
  IF p = Null THEN heap
  ELSE [heap EXCEPT ![p] = [state |-> "released", bytes |-> @.bytes, frees |-> @.frees + 1]]

\* what reading the first n elements behind p can yield: the contents of a
\* live buffer, anything at all once it has been released
HeapRead(p, n, alphabet) ==
  IF heap[p].state = "live" THEN {SubSeq(heap[p].bytes, 1, n)} ELSE SeqsOf(alphabet, n)

----------------------------------------------------------------------------
(* State *)

NoMem == [data |-> NoGrid, config |-> NewConfig, compressed_data |-> <<>>,
          decompressed_data |-> NoView]

NoFrame == [data_copy |-> <<>>, compressed_data_copy |-> <<>>, ffi_config |-> NoFfiConfig,
            out_buffer |-> Null, size |-> 0, vec |-> <<>>]

Init ==
  /\ pc = [t \in Threads |-> "idle"]
  /\ op = [t \in Threads |-> "none"]
  /\ mem = [t \in Threads |-> NoMem]
  /\ entry = [t \in Threads |-> NoMem]
  /\ frame = [t \in Threads |-> NoFrame]
  /\ result = [t \in Threads |-> NoResult]
  /\ heap = [p \in Ptrs |-> NoCell]
  /\ log = [t \in Threads |-> <<>>]

Event(call, p) == [call |-> call, ptr |-> p]

\* a caller enters with its arguments in memory it owns
Enter(t, name, m, first) ==
  /\ pc' = [pc EXCEPT ![t] = first]
  /\ op' = [op EXCEPT ![t] = name]
  /\ mem' = [mem EXCEPT ![t] = m]
  /\ entry' = [entry EXCEPT ![t] = m]
  /\ UNCHANGED <<frame, result, heap, log>>

\* the call returns r
Return(t, r) ==
  /\ pc' = [pc EXCEPT ![t] = "done"]
  /\ result' = [result EXCEPT ![t] = r]

----------------------------------------------------------------------------
(* EBCCConfig::validate, called on its own *)

ValidateCall(t) ==
  /\ pc[t] = "idle"
  /\ \E config \in EBCCConfig :
    Enter(t, "validate", [NoMem EXCEPT !.config = config], "val_run")

ValidateRun(t) ==
  /\ pc[t] = "val_run"
  /\ Return(t, Validate(mem[t].config))
  /\ UNCHANGED <<op, mem, entry, frame, heap, log>>

----------------------------------------------------------------------------
(* ebcc_encode *)

EncodeCall(t) ==
  /\ pc[t] = "idle"
  /\ \E data \in Grids, config \in EBCCConfig :
    Enter(t, "encode", [NoMem EXCEPT !.data = data, !.config = config], "enc_validate")

\* the checks, then the foreign configuration and the copy of the input
EncodeCheckInput(t) ==
  /\ pc[t] = "enc_validate"
  /\ LET r == EncodeValidate(mem[t].data, mem[t].config)
     IN  IF r.kind # "Ok"
         THEN /\ Return(t, r)
              /\ UNCHANGED frame
         ELSE /\ frame' = [frame EXCEPT ![t].ffi_config = FfiConfig(mem[t].data, mem[t].config),
                                        ![t].data_copy = mem[t].data.head]
              /\ pc' = [pc EXCEPT ![t] = "enc_ffi"]
              /\ UNCHANGED result
  /\ UNCHANGED <<op, mem, entry, heap, log>>

\* what the C encoder may do to the buffer it was handed
Clobbered(copy) == {copy, [i \in DOMAIN copy |-> "0.0"]}

EncodeForeignOnCallerData(t) ==
  /\ pc[t] = "enc_ffi"
  /\ \E size \in 0..MaxPayload, null \in BOOLEAN, copy \in Clobbered(mem[t].data.head) :
       \E contents \in (IF null THEN {<<>>} ELSE IF size = 0 THEN {<<0>>} ELSE SeqsOf(ByteVals, size)) :
         LET p == IF null THEN Null ELSE FreshPtr
         IN  /\ heap' = IF null THEN heap ELSE Alloc(p, contents)
             /\ frame' = [frame EXCEPT ![t].out_buffer = p, ![t].size = size]
             /\ mem' = [mem EXCEPT ![t].data.head = copy]
             /\ log' = [log EXCEPT ![t] = Append(@, Event("ebcc_encode", p))]
  /\ pc' = [pc EXCEPT ![t] = "enc_check"]
  /\ UNCHANGED <<op, entry, result>>

\* ebcc_sys::ebcc_encode: the C encoder answers with a size and an output pointer
EncodeForeign(t) ==
  /\ pc[t] = "enc_ffi"
  /\ \E size \in 0..MaxPayload, null \in BOOLEAN, copy \in Clobbered(frame[t].data_copy) :
       \E contents \in (IF null THEN {<<>>} ELSE IF size = 0 THEN {<<0>>} ELSE SeqsOf(ByteVals, size)) :
         LET p == IF null THEN Null ELSE FreshPtr
         IN  /\ heap' = IF null THEN heap ELSE Alloc(p, contents)
             /\ frame' = [frame EXCEPT ![t].out_buffer = p, ![t].size = size,
                                       ![t].data_copy = copy]
             /\ log' = [log EXCEPT ![t] = Append(@, Event("ebcc_encode", p))]
  /\ pc' = [pc EXCEPT ![t] = "enc_check"]
  /\ UNCHANGED <<op, mem, entry, result>>

EncodeCheckFreesEarly(t) ==
  /\ pc[t] = "enc_check"
  /\ IF frame[t].size = 0 \/ frame[t].out_buffer = Null
     THEN /\ Return(t, Err("CompressionError", "ebcc_encode C function returned null or zero size"))
          /\ UNCHANGED <<heap, log>>
     ELSE /\ pc' = [pc EXCEPT ![t] = "enc_copy"]
          /\ heap' = FreeBuffer(frame[t].out_buffer)
          /\ log' = [log EXCEPT ![t] = Append(@, Event("free_buffer", frame[t].out_buffer))]
          /\ UNCHANGED result
  /\ UNCHANGED <<op, mem, entry, frame>>

\* compressed_size == 0 || out_buffer.is_null()
EncodeCheck(t) ==
  /\ pc[t] = "enc_check"
  /\ IF frame[t].size = 0 \/ frame[t].out_buffer = Null
     THEN /\ Return(t, Err("CompressionError", "ebcc_encode C function returned null or zero size"))
     ELSE /\ pc' = [pc EXCEPT ![t] = "enc_copy"]
          /\ UNCHANGED result
  /\ UNCHANGED <<op, mem, entry, frame, heap, log>>

\* slice::from_raw_parts(out_buffer, compressed_size).to_vec()
EncodeCopy(t) ==
  /\ pc[t] = "enc_copy"
  /\ \E v \in HeapRead(frame[t].out_buffer, frame[t].size, ByteVals) :
       frame' = [frame EXCEPT ![t].vec = v]
  /\ log' = [log EXCEPT ![t] = Append(@, Event("read", frame[t].out_buffer))]
  /\ pc' = [pc EXCEPT ![t] = "enc_free"]
  /\ UNCHANGED <<op, mem, entry, result, heap>>

EncodeFreeShared(t) ==
  /\ pc[t] = "enc_free"
  /\ LET latest == CHOOSE p \in Ptrs : /\ heap[p].state # "unallocated"
                                       /\ \A q \in Ptrs : heap[q].state # "unallocated" => q <= p
     IN  /\ heap' = FreeBuffer(latest)
         /\ log' = [log EXCEPT ![t] = Append(@, Event("free_buffer", latest))]
  /\ Return(t, OkBytes(frame[t].vec))
  /\ UNCHANGED <<op, mem, entry, frame>>

\* ebcc_sys::free_buffer(out_buffer), then Ok(compressed_data)
EncodeFree(t) ==
  /\ pc[t] = "enc_free"
  /\ heap' = FreeBuffer(frame[t].out_buffer)
  /\ log' = [log EXCEPT ![t] = Append(@, Event("free_buffer", frame[t].out_buffer))]
  /\ Return(t, OkBytes(frame[t].vec))
  /\ UNCHANGED <<op, mem, entry, frame>>

----------------------------------------------------------------------------
(* ebcc_decode_into *)

DecodeCall(t) ==
  /\ pc[t] = "idle"
  /\ \E payload \in Payloads, output \in OutViews :
    Enter(t, "decode",
          [NoMem EXCEPT !.compressed_data = payload, !.decompressed_data = output],
          "dec_validate")

DecodeCheckInputAny(t) ==
  /\ pc[t] = "dec_validate"
  /\ frame' = [frame EXCEPT ![t].compressed_data_copy = mem[t].compressed_data]
  /\ pc' = [pc EXCEPT ![t] = "dec_ffi"]
  /\ UNCHANGED <<op, mem, entry, heap, log, result>>

\* the emptiness check, then the copy of the payload
DecodeCheckInput(t) ==
  /\ pc[t] = "dec_validate"
  /\ IF mem[t].compressed_data = <<>>
     THEN /\ Return(t, Err("InvalidInput", "Compressed data is empty"))
          /\ UNCHANGED frame
     ELSE /\ frame' = [frame EXCEPT ![t].compressed_data_copy = mem[t].compressed_data]
          /\ pc' = [pc EXCEPT ![t] = "dec_ffi"]
          /\ UNCHANGED result
  /\ UNCHANGED <<op, mem, entry, heap, log>>

ClobberedBytes(copy) == {copy, [i \in DOMAIN copy |-> 0]}

\* ebcc_sys::ebcc_decode: the C decoder answers with an element count and an output pointer
DecodeForeign(t) ==
  /\ pc[t] = "dec_ffi"
  /\ \E size \in 0..MaxDecoded, null \in BOOLEAN,
        copy \in ClobberedBytes(frame[t].compressed_data_copy) :
       \E contents \in (IF null THEN {<<>>} ELSE IF size = 0 THEN {<<"0.0">>}
                        ELSE SeqsOf(DecodedVals, size)) :
         LET p == IF null THEN Null ELSE FreshPtr
         IN  /\ heap' = IF null THEN heap ELSE Alloc(p, contents)
             /\ frame' = [frame EXCEPT ![t].out_buffer = p, ![t].size = size,
                                       ![t].compressed_data_copy = copy]
             /\ log' = [log EXCEPT ![t] = Append(@, Event("ebcc_decode", p))]
  /\ pc' = [pc EXCEPT ![t] = "dec_check"]
  /\ UNCHANGED <<op, mem, entry, result>>

DecodeCheckNullOnly(t) ==
  /\ pc[t] = "dec_check"
  /\ IF frame[t].out_buffer = Null
     THEN /\ Return(t, Err("DecompressionError", "ebcc_decode C function returned null or zero size"))
     ELSE /\ pc' = [pc EXCEPT ![t] = "dec_shape"]
          /\ UNCHANGED result
  /\ UNCHANGED <<op, mem, entry, frame, heap, log>>

\* decompressed_size == 0 || out_buffer.is_null()
DecodeCheck(t) ==
  /\ pc[t] = "dec_check"
  /\ IF frame[t].size = 0 \/ frame[t].out_buffer = Null
     THEN /\ Return(t, Err("DecompressionError", "ebcc_decode C function returned null or zero size"))
     ELSE /\ pc' = [pc EXCEPT ![t] = "dec_shape"]
          /\ UNCHANGED result
  /\ UNCHANGED <<op, mem, entry, frame, heap, log>>

FromShapeIsErrOffByOne(dim, len) == Count(dim) >= len

\* ArrayView3::from_shape(dim, slice) on a contiguous slice is an error
\* exactly when the shape needs more elements than the slice holds
FromShapeIsErr(dim, len) == Count(dim) > len

\* what assign() leaves in a view of shape dim when it reads src in order
Assigned(dim, src) == [i \in 1..Count(dim) |-> src[i]]

DecodeShapeWriteFirst(t) ==
  /\ pc[t] = "dec_shape"
  /\ IF FromShapeIsErr(mem[t].decompressed_data.shape, frame[t].size)
     THEN /\ Return(t, Err("InvalidInput", "Decompressed data should be of shape but decompressed to elements"))
          /\ \E v \in HeapRead(frame[t].out_buffer, frame[t].size, DecodedVals) :
               mem' = [mem EXCEPT ![t].decompressed_data.elems =
                         [i \in DOMAIN @ |-> IF i <= frame[t].size THEN v[i] ELSE @[i]]]
     ELSE /\ pc' = [pc EXCEPT ![t] = "dec_assign"]
          /\ UNCHANGED <<result, mem>>
  /\ UNCHANGED <<op, entry, frame, heap, log>>

\* the view over the decoded elements, or the shape error
DecodeShape(t) ==
  /\ pc[t] = "dec_shape"
  /\ IF FromShapeIsErr(mem[t].decompressed_data.shape, frame[t].size)
     THEN /\ Return(t, Err("InvalidInput", "Decompressed data should be of shape but decompressed to elements"))
     ELSE /\ pc' = [pc EXCEPT ![t] = "dec_assign"]
          /\ UNCHANGED result
  /\ UNCHANGED <<op, mem, entry, frame, heap, log>>

\* decompressed_data.assign(&decompressed_view), then Ok(())
DecodeAssign(t) ==
  /\ pc[t] = "dec_assign"
  /\ \E v \in HeapRead(frame[t].out_buffer, frame[t].size, DecodedVals) :
       mem' = [mem EXCEPT ![t].decompressed_data.elems =
                 Assigned(mem[t].decompressed_data.shape, v)]
  /\ log' = [log EXCEPT ![t] = Append(@, Event("read", frame[t].out_buffer))]
  /\ Return(t, OkUnit)
  /\ UNCHANGED <<op, entry, frame, heap>>

----------------------------------------------------------------------------

Step(t) ==
  \/ ValidateCall(t)
  \/ ValidateRun(t)
  \/ EncodeCall(t)
  \/ EncodeCheckInput(t)
  \/ EncodeForeign(t)
  \/ EncodeCheck(t)
  \/ EncodeCopy(t)
  \/ EncodeFree(t)
  \/ DecodeCall(t)
  \/ DecodeCheckInput(t)
  \/ DecodeForeign(t)
  \/ DecodeCheck(t)
  \/ DecodeShape(t)
  \/ DecodeAssign(t)

Next == \E t \in Solo : Step(t)

Spec == Init /\ [][Next]_vars

----------------------------------------------------------------------------
(* Vocabulary of the properties *)

Done(t) == pc[t] = "done"

\* how often thread t has made the foreign call of that name
Calls(t, name) == Cardinality({i \in DOMAIN log[t] : log[t][i].call = name})

\* the foreign call handed thread t a buffer and a non-zero size
ForeignSuccess(t) == frame[t].size # 0 /\ frame[t].out_buffer # Null

\* thread t never read a buffer after asking for its release
NoReadAfterFree(t) ==
  \A i, j \in DOMAIN log[t] :
    (i < j /\ log[t][i].call = "free_buffer" /\ log[t][j].call = "read")
      => log[t][i].ptr # log[t][j].ptr

Positive(x) == x \in {"1.0", "10.0", "+inf"}
NonPositive(x) == x \in {"-inf", "-1.0", "0.0"}
Bounded(config) == config.residual_compression_type.tag \in {"AbsoluteError", "RelativeError"}

PolicyInvalid(config) ==
  \/ NonPositive(config.base_cr)
  \/ Bounded(config) /\ NonPositive(config.residual_compression_type.error)

PolicyValid(config) ==
  /\ Positive(config.base_cr)
  /\ Bounded(config) => Positive(config.residual_compression_type.error)

ShapeValid(data) ==
  /\ \A i \in 1..3 : data.shape[i] > 0
  /\ Count(data.shape) <= UsizeMax
  /\ Count(data.shape) <= IsizeMax \div SizeOfF32
  /\ data.shape[2] >= MinDim
  /\ data.shape[3] >= MinDim

HasNonFinite(data) ==
  \E i \in 0..(Count(data.shape) - 1) : ElemAt(data, i) \in {"NaN", "+inf", "-inf"}

----------------------------------------------------------------------------
(* Properties *)

\* C1: when the foreign decoder hands ebcc_decode_into a buffer and a non-zero
\* count, the buffer has been released through free_buffer exactly once by the
\* time the call returns, on the Ok path and on the shape-mismatch path, and
\* not before it was copied out.
C1_DecodeReleasesOnce ==
  \A t \in Threads :
    (op[t] = "decode" /\ Done(t) /\ ForeignSuccess(t))
      => /\ heap[frame[t].out_buffer].frees = 1
         /\ Calls(t, "free_buffer") = 1
         /\ NoReadAfterFree(t)

\* C2: when the foreign encoder signals success, ebcc_encode returns exactly
\* `size` bytes equal to the buffer's contents, reads the buffer before it
\* releases it, releases it exactly once and never reads it afterwards.
C2_EncodeCopiesThenReleasesOnce ==
  \A t \in Threads :
    op[t] = "encode" =>
      /\ NoReadAfterFree(t)
      /\ (Done(t) /\ ForeignSuccess(t)) =>
           /\ result[t].kind = "Ok"
           /\ Len(result[t].value) = frame[t].size
           /\ result[t].value = heap[frame[t].out_buffer].bytes
           /\ log[t] = <<Event("ebcc_encode", frame[t].out_buffer),
                         Event("read", frame[t].out_buffer),
                         Event("free_buffer", frame[t].out_buffer)>>
           /\ heap[frame[t].out_buffer].frees = 1

C2_Witness ==
  \E t \in Threads :
    /\ op[t] = "encode" /\ Done(t) /\ ForeignSuccess(t)
    /\ result[t].kind = "Ok"
    /\ Len(result[t].value) = MaxPayload

\* C3: after a successful foreign decode of n elements into a view of m
\* elements, ebcc_decode_into returns Ok only when n = m; whenever n # m it
\* returns InvalidInput and leaves the output as it was.
C3_OkOnlyOnExactCount ==
  \A t \in Threads :
    (op[t] = "decode" /\ Done(t) /\ ForeignSuccess(t)) =>
      LET n == frame[t].size
          m == Count(mem[t].decompressed_data.shape)
      IN  /\ result[t].kind = "Ok" => n = m
          /\ n # m => /\ result[t].kind = "InvalidInput"
                      /\ mem[t].decompressed_data = entry[t].decompressed_data

\* C4: whenever ebcc_decode_into returns an error, every element of the
\* caller's output has the value it had before the call.
C4_FailedDecodeLeavesOutput ==
  \A t \in Threads :
    (op[t] = "decode" /\ Done(t) /\ result[t].kind # "Ok")
      => mem[t].decompressed_data = entry[t].decompressed_data

C4_Witness ==
  \E t \in Threads :
    /\ op[t] = "decode" /\ Done(t) /\ ForeignSuccess(t)
    /\ result[t].kind = "InvalidInput"
    /\ Count(mem[t].decompressed_data.shape) > frame[t].size

\* C5: the foreign encoder is called only for a request that passes every
\* check (dimensions > 0, element count without overflow and at most
\* isize::MAX / 4, height and width >= 32, a policy that passes validate,
\* every element finite); a call that returns InvalidInput or InvalidConfig
\* has made no foreign call at all.
C5_ForeignEncodeOnlyAfterValidation ==
  \A t \in Threads :
    op[t] = "encode" =>
      /\ Calls(t, "ebcc_encode") > 0 =>
           /\ ShapeValid(entry[t].data)
           /\ Validate(entry[t].config).kind = "Ok"
           /\ ~HasNonFinite(entry[t].data)
      /\ (Done(t) /\ result[t].kind \in {"InvalidInput", "InvalidConfig"}) => log[t] = <<>>

C5_Witness ==
  \E t \in Threads : op[t] = "encode" /\ pc[t] = "enc_check" /\ Calls(t, "ebcc_encode") = 1

\* C6: ebcc_decode_into with an empty payload returns InvalidInput and never
\* calls the foreign decoder, whatever the output view is.
C6_EmptyPayloadRejected ==
  \A t \in Threads :
    (op[t] = "decode" /\ entry[t].compressed_data = <<>>) =>
      /\ log[t] = <<>>
      /\ pc[t] \in {"dec_validate", "done"}
      /\ Done(t) => result[t].kind = "InvalidInput"

C6_Witness ==
  \E t \in Threads :
    /\ op[t] = "decode" /\ Done(t) /\ entry[t].compressed_data = <<>>
    /\ Count(entry[t].decompressed_data.shape) > 0

\* C7: validate returns InvalidConfig for every policy with base_cr <= 0 and
\* for every AbsoluteError or RelativeError policy with bound <= 0, Ok for
\* every policy with base_cr > 0 that is Jpeg2000Only or carries a bound > 0,
\* and leaves the policy as it was.
C7_ValidateDecides ==
  \A t \in Threads :
    (op[t] = "validate" /\ Done(t)) =>
      LET config == entry[t].config
      IN  /\ NonPositive(config.base_cr) => result[t].kind = "InvalidConfig"
          /\ (Bounded(config) /\ NonPositive(config.residual_compression_type.error))
               => result[t].kind = "InvalidConfig"
          /\ PolicyValid(config) => result[t].kind = "Ok"
          /\ mem[t].config = config

C7_Witness ==
  \E t \in Threads :
    /\ op[t] = "validate" /\ Done(t)
    /\ Positive(entry[t].config.base_cr)
    /\ Bounded(entry[t].config)
    /\ NonPositive(entry[t].config.residual_compression_type.error)
    /\ result[t].kind = "InvalidConfig"

\* C8: every configuration record handed to the foreign encoder has a
\* strictly positive base ratio and, in the two error-bounded modes, a
\* strictly positive error bound; a policy whose base_cr or bound is NaN
\* never passes validate.
C8_ForeignConfigPositive ==
  \A t \in Threads :
    /\ (op[t] = "encode" /\ Calls(t, "ebcc_encode") > 0) =>
         /\ Positive(frame[t].ffi_config.base_cr)
         /\ frame[t].ffi_config.residual_compression_type \in {"MAX_ERROR", "RELATIVE_ERROR"}
              => Positive(frame[t].ffi_config.error)
    /\ (op[t] = "validate" /\ Done(t) /\ ~PolicyValid(entry[t].config))
         => result[t].kind = "InvalidConfig"

\* C9 as stated: for every request whose policy is invalid, ebcc_encode
\* returns InvalidConfig whatever the grid is.
C9_InvalidPolicyAlwaysInvalidConfig ==
  \A t \in Threads :
    (op[t] = "encode" /\ Done(t) /\ PolicyInvalid(entry[t].config))
      => result[t].kind = "InvalidConfig"

\* C9 as amended: ebcc_encode checks the grid's dimensions and size, then the
\* policy, then the elements: for every request whose policy has base_cr <= 0
\* or a bound <= 0 the result is InvalidConfig when the grid's shape passes
\* (also when an element is non-finite) and InvalidInput when it does not.
C9_ShapeThenPolicyThenElements ==
  \A t \in Threads :
    (op[t] = "encode" /\ Done(t) /\ PolicyInvalid(entry[t].config)) =>
      /\ ShapeValid(entry[t].data) => result[t].kind = "InvalidConfig"
      /\ ~ShapeValid(entry[t].data) => result[t].kind = "InvalidInput"
      /\ log[t] = <<>>

C9_Witness ==
  \E t \in Threads :
    /\ op[t] = "encode" /\ Done(t) /\ PolicyInvalid(entry[t].config)
    /\ ShapeValid(entry[t].data)
    /\ HasNonFinite(entry[t].data)
    /\ result[t].kind = "InvalidConfig"

\* C10: under a valid policy ebcc_encode returns InvalidInput for every grid
\* with a zero dimension, an element count that overflows or exceeds
\* isize::MAX / 4, a height or width below 32, or a NaN or infinite element.
C10_MalformedGridRejected ==
  \A t \in Threads :
    (op[t] = "encode" /\ Done(t) /\ PolicyValid(entry[t].config)
       /\ (~ShapeValid(entry[t].data) \/ HasNonFinite(entry[t].data)))
      => result[t].kind = "InvalidInput"

C10_Witness ==
  \E t \in Threads :
    /\ op[t] = "encode" /\ Done(t) /\ PolicyValid(entry[t].config)
    /\ ShapeValid(entry[t].data)
    /\ HasNonFinite(entry[t].data)
    /\ result[t].kind = "InvalidInput"

\* C11: the foreign call counts as a success exactly when the returned size
\* is non-zero and the output pointer is non-null; on each of the other three
\* outcomes ebcc_encode returns CompressionError and ebcc_decode_into returns
\* DecompressionError, and no call makes a second foreign call.
C11_ForeignFailureIsTerminal ==
  \A t \in Threads :
    /\ Calls(t, "ebcc_encode") + Calls(t, "ebcc_decode") <= 1
    /\ (op[t] = "encode" /\ Done(t) /\ Calls(t, "ebcc_encode") = 1) =>
         /\ (frame[t].size # 0 /\ frame[t].out_buffer # Null) => result[t].kind = "Ok"
         /\ (frame[t].size = 0 \/ frame[t].out_buffer = Null)
              => result[t].kind = "CompressionError"
    /\ (op[t] = "decode" /\ Done(t) /\ Calls(t, "ebcc_decode") = 1) =>
         /\ (frame[t].size # 0 /\ frame[t].out_buffer # Null)
              => result[t].kind # "DecompressionError"
         /\ (frame[t].size = 0 \/ frame[t].out_buffer = Null)
              => result[t].kind = "DecompressionError"

C11_Witness ==
  \E t \in Threads :
    /\ op[t] = "decode" /\ Done(t) /\ Calls(t, "ebcc_decode") = 1
    /\ frame[t].size = 0 /\ frame[t].out_buffer # Null
    /\ result[t].kind = "DecompressionError"

\* C12: the foreign routines only ever get the adapter's own copy: when
\* ebcc_encode returns the caller's grid is unchanged and when
\* ebcc_decode_into returns the caller's payload is unchanged, also when the
\* foreign routine overwrote every element of the buffer it was given.
C12_CallerInputUntouched ==
  \A t \in Threads :
    /\ op[t] = "encode" => mem[t].data = entry[t].data
    /\ op[t] = "decode" => mem[t].compressed_data = entry[t].compressed_data

C12_Witness ==
  \E t \in Threads :
    /\ op[t] = "encode" /\ Done(t) /\ Calls(t, "ebcc_encode") = 1
    /\ frame[t].data_copy # entry[t].data.head
    /\ mem[t].data = entry[t].data

\* C14: the configuration record ebcc_encode builds has the grid's dims, the
\* policy's base ratio, the discriminant NONE / MAX_ERROR / RELATIVE_ERROR of
\* the policy's mode, the error scalar 0.0 for Jpeg2000Only and the carried
\* bound otherwise, and residual_cr 1.0.
C14_ForeignConfigOfPolicy ==
  \A t \in Threads :
    (op[t] = "encode" /\ (pc[t] = "enc_ffi" \/ Calls(t, "ebcc_encode") > 0)) =>
      LET c == frame[t].ffi_config
          mode == entry[t].config.residual_compression_type
      IN  /\ c.dims = entry[t].data.shape
          /\ c.base_cr = entry[t].config.base_cr
          /\ mode.tag = "Jpeg2000Only"
               => (c.residual_compression_type = "NONE" /\ c.error = "0.0")
          /\ mode.tag = "AbsoluteError"
               => (c.residual_compression_type = "MAX_ERROR" /\ c.error = mode.error)
          /\ mode.tag = "RelativeError"
               => (c.residual_compression_type = "RELATIVE_ERROR" /\ c.error = mode.error)
          /\ c.residual_cr = "1.0"

C14_Witness ==
  \E t \in Threads :
    /\ op[t] = "encode" /\ Calls(t, "ebcc_encode") = 1
    /\ entry[t].config.residual_compression_type.tag = "RelativeError"
    /\ frame[t].ffi_config.residual_compression_type = "RELATIVE_ERROR"

\* C15: for a grid of valid shape under a valid policy with one or more
\* non-finite elements, the InvalidInput error names the smallest row-major
\* index that holds a non-finite element.
C15_FirstNonFiniteIndex ==
  \A t \in Threads :
    (op[t] = "encode" /\ Done(t) /\ ShapeValid(entry[t].data)
       /\ PolicyValid(entry[t].config) /\ HasNonFinite(entry[t].data)) =>
      /\ result[t].kind = "InvalidInput"
      /\ result[t].index \in 0..(Count(entry[t].data.shape) - 1)
      /\ ElemAt(entry[t].data, result[t].index) \in {"NaN", "+inf", "-inf"}
      /\ \A j \in 0..(result[t].index - 1) :
           ElemAt(entry[t].data, j) \notin {"NaN", "+inf", "-inf"}

C15_Witness ==
  \E t \in Threads :
    /\ op[t] = "encode" /\ Done(t) /\ ShapeValid(entry[t].data)
    /\ PolicyValid(entry[t].config)
    /\ Cardinality({i \in 0..(Count(entry[t].data.shape) - 1) :
                      ElemAt(entry[t].data, i) \in {"NaN", "+inf", "-inf"}}) >= 2
    /\ result[t].index = 0

\* C17: whatever the foreign encoder answers, also a non-null output pointer
\* with size 0, no buffer it allocated is still allocated when ebcc_encode
\* returns.
C17_EncodeLeavesNoBuffer ==
  \A t \in Threads :
    (op[t] = "encode" /\ Done(t)) =>
      \A i \in DOMAIN log[t] :
        (log[t][i].call = "ebcc_encode" /\ log[t][i].ptr # Null)
          => heap[log[t][i].ptr].state = "released"

----------------------------------------------------------------------------
(* The round trip: one caller encodes a valid grid under a valid policy and *)
(* decodes the bytes it got into an output of the grid's shape, against an  *)
(* engine that decodes a payload to as many elements as were encoded.       *)

ValidGrids == {g \in Grids : ShapeValid(g) /\ ~HasNonFinite(g)}
ValidPolicies == {c \in EBCCConfig : PolicyValid(c)}

\* Array::zeros(data.dim())
Zeros(shape) == [shape |-> shape, elems |-> [i \in 1..Count(shape) |-> "0.0"]]

RoundTripEncodeCall(t) ==
  /\ pc[t] = "idle"
  /\ \E data \in ValidGrids, config \in ValidPolicies :
       Enter(t, "encode", [NoMem EXCEPT !.data = data, !.config = config], "enc_validate")

\* ebcc_decode_into(&compressed, decompressed.view_mut()) after ebcc_encode returned Ok
RoundTripDecodeCall(t) ==
  /\ pc[t] = "done"
  /\ op[t] = "encode"
  /\ result[t].kind = "Ok"
  /\ Enter(t, "decode",
           [mem[t] EXCEPT !.compressed_data = result[t].value,
                          !.decompressed_data = Zeros(mem[t].data.shape)],
           "dec_validate")

\* ebcc_sys::ebcc_decode of an engine that returns the encoded element count
DecodeForeignFaithful(t) ==
  /\ pc[t] = "dec_ffi"
  /\ \E v \in DecodedVals, copy \in ClobberedBytes(frame[t].compressed_data_copy) :
       LET p == FreshPtr
           n == Count(mem[t].data.shape)
       IN  /\ heap' = Alloc(p, [i \in 1..n |-> v])
           /\ frame' = [frame EXCEPT ![t].out_buffer = p, ![t].size = n,
                                     ![t].compressed_data_copy = copy]
           /\ log' = [log EXCEPT ![t] = Append(@, Event("ebcc_decode", p))]
  /\ pc' = [pc EXCEPT ![t] = "dec_check"]
  /\ UNCHANGED <<op, mem, entry, result>>

RoundTripStep(t) ==
  \/ RoundTripEncodeCall(t)
  \/ EncodeCheckInput(t)
  \/ EncodeForeign(t)
  \/ EncodeCheck(t)
  \/ EncodeCopy(t)
  \/ EncodeFree(t)
  \/ RoundTripDecodeCall(t)
  \/ DecodeCheckInput(t)
  \/ DecodeForeignFaithful(t)
  \/ DecodeCheck(t)
  \/ DecodeShape(t)
  \/ DecodeAssign(t)

NextRoundTrip == \E t \in Solo : RoundTripStep(t)

SpecRoundTrip == Init /\ [][NextRoundTrip]_vars

\* C13: for every valid grid g and valid policy p, against an engine whose
\* decode returns as many elements as the encoded grid had, decoding the bytes
\* ebcc_encode returned into an output of g's shape returns Ok and fills an
\* array of the shape of g.
C13_RoundTripShape ==
  \A t \in Threads :
    (op[t] = "decode" /\ Done(t)) =>
      /\ result[t].kind = "Ok"
      /\ mem[t].decompressed_data.shape = mem[t].data.shape
      /\ Len(mem[t].decompressed_data.elems) = Count(mem[t].data.shape)
      /\ mem[t].decompressed_data.elems = heap[frame[t].out_buffer].bytes

C13_Witness ==
  \E t \in Threads :
    /\ op[t] = "decode" /\ Done(t) /\ result[t].kind = "Ok"
    /\ mem[t].data.shape = <<1, MinDim, 4 * MinDim>>
    /\ mem[t].decompressed_data.elems # Zeros(mem[t].data.shape).elems

----------------------------------------------------------------------------
(* Concurrent callers: every thread makes one call on buffers of its own;   *)
(* the steps of the calls interleave and the C allocator is shared.         *)

ConcGrids ==
  {g \in Grids : /\ g.shape = <<1, MinDim, MinDim>>
                 /\ g.head[1] \in {Fill, "NaN"}
                 /\ \A i \in 2..Len(g.head) : g.head[i] = Fill}

ConcViews == {Zeros(<<1, 1, 1>>), Zeros(<<1, 1, MaxOut>>)}

ConcEncodeCall(t) ==
  /\ pc[t] = "idle"
  /\ \E data \in ConcGrids :
       Enter(t, "encode", [NoMem EXCEPT !.data = data, !.config = NewConfig], "enc_validate")

ConcDecodeCall(t) ==
  /\ pc[t] = "idle"
  /\ \E output \in ConcViews :
       Enter(t, "decode",
             [NoMem EXCEPT !.compressed_data = <<255>>, !.decompressed_data = output],
             "dec_validate")

ConcStep(t) ==
  \/ ConcEncodeCall(t)
  \/ EncodeCheckInput(t)
  \/ EncodeForeign(t)
  \/ EncodeCheck(t)
  \/ EncodeCopy(t)
  \/ EncodeFree(t)
  \/ ConcDecodeCall(t)
  \/ DecodeCheckInput(t)
  \/ DecodeForeign(t)
  \/ DecodeCheck(t)
  \/ DecodeShape(t)
  \/ DecodeAssign(t)

NextConc == \E t \in Threads : ConcStep(t)

SpecConc == Init /\ [][NextConc]_vars

\* what the call of thread t returns when it runs with no other call, given
\* its arguments and the answer the foreign routine gave it
AloneResult(t) ==
  LET own == heap[frame[t].out_buffer].bytes
  IN  IF op[t] = "encode"
      THEN IF ~ShapeValid(entry[t].data)
           THEN CheckShape(entry[t].data)
           ELSE IF Validate(entry[t].config).kind # "Ok"
           THEN Validate(entry[t].config)
           ELSE IF HasNonFinite(entry[t].data)
           THEN CheckFinite(entry[t].data)
           ELSE IF ~ForeignSuccess(t)
           THEN Err("CompressionError", "ebcc_encode C function returned null or zero size")
           ELSE OkBytes(SubSeq(own, 1, frame[t].size))
      ELSE IF entry[t].compressed_data = <<>>
           THEN Err("InvalidInput", "Compressed data is empty")
           ELSE IF ~ForeignSuccess(t)
           THEN Err("DecompressionError", "ebcc_decode C function returned null or zero size")
           ELSE IF Count(entry[t].decompressed_data.shape) > frame[t].size
           THEN Err("InvalidInput", "Decompressed data should be of shape but decompressed to elements")
           ELSE OkUnit

\* the output view of thread t after its call ran with no other call
AloneOutput(t) ==
  IF op[t] = "decode" /\ AloneResult(t).kind = "Ok"
  THEN [entry[t].decompressed_data EXCEPT
          !.elems = SubSeq(heap[frame[t].out_buffer].bytes, 1,
                           Count(entry[t].decompressed_data.shape))]
  ELSE entry[t].decompressed_data

\* C16: in every interleaving of concurrent ebcc_encode / ebcc_decode_into
\* calls on disjoint buffers, each call reads and releases only the foreign
\* buffer returned to it, no foreign buffer is released twice or read after
\* its release, and each call returns what it returns when run alone.
C16_ConcurrentCallsIndependent ==
  /\ \A p \in Ptrs : heap[p].frees <= 1
  /\ \A t \in Threads :
       /\ NoReadAfterFree(t)
       /\ \A u \in Threads \ {t} :
            frame[t].out_buffer # Null => frame[t].out_buffer # frame[u].out_buffer
       /\ \A i \in DOMAIN log[t] :
            log[t][i].call \in {"read", "free_buffer"} =>
              /\ log[t][i].ptr # Null
              /\ log[t][i].ptr = frame[t].out_buffer
              /\ \E j \in 1..(i - 1) :
                   /\ log[t][j].call \in {"ebcc_encode", "ebcc_decode"}
                   /\ log[t][j].ptr = log[t][i].ptr
       /\ Done(t) =>
            /\ result[t] = AloneResult(t)
            /\ mem[t].decompressed_data = AloneOutput(t)

C16_Witness ==
  \E t \in Threads, u \in Threads :
    /\ t # u
    /\ op[t] = "encode" /\ Done(t) /\ result[t].kind = "Ok"
    /\ op[u] = "decode" /\ pc[u] = "dec_assign"
    /\ frame[t].out_buffer > frame[u].out_buffer
    /\ frame[u].out_buffer # Null

====
